---- MODULE Spec2Model ----
(***************************************************************************)
(* A model of ldcoolp_figshare.main.FigshareInstituteAdmin: the account    *)
(* list accessor with its admin filter, the account-detail aggregation and *)
(* the DOI check / DOI reservation workflow.                               *)
(*                                                                         *)
(* Python strings are sequences of one-character strings, Python's None is *)
(* the record PyNone, and a DataFrame is a sequence of rows, each carrying *)
(* its index label.  The transport (redata_request) answers from `server`, *)
(* which is fixed by Init; an answer is either a body or an HTTPError.     *)
(***************************************************************************)
EXTENDS Integers, Sequences, FiniteSets, TLC

VARIABLES
    op,               \* the public method being executed
    pc,               \* its position
    server,           \* what the remote API holds and how it answers
    io,               \* every HTTP exchange and console read so far, in order
    article_id,       \* argument of doi_check / reserve_doi
    console,          \* what the operator will type at the prompt
    doi_string,       \* reserve_doi: the DOI obtained from doi_check
    admin_filter,     \* self.admin_filter
    ignore_admin,     \* self.ignore_admin
    flag,             \* argument of get_account_details
    accounts_df,      \* get_account_list / get_account_details
    groups_df,        \* get_account_details
    n,                \* get_account_details: loop index (0-based)
    roles,            \* get_account_details: roles of the current account
    num_articles,
    num_projects,
    num_collections,
    admin_flag,
    reviewer_flag,
    group_assoc,
    result            \* what the method returned, or the exception it raised

vars == <<op, pc, server, io, article_id, console, doi_string,
          admin_filter, ignore_admin, flag, accounts_df, groups_df, n, roles,
          num_articles, num_projects, num_collections, admin_flag,
          reviewer_flag, group_assoc, result>>

doiVars == <<article_id, console, doi_string>>
aggVars == <<flag, groups_df, n, roles, num_articles, num_projects,
             num_collections, admin_flag, reviewer_flag, group_assoc>>

-----------------------------------------------------------------------------
(* Python values *)

PyNone == [type |-> "NoneType"]
PyStr(s) == [type |-> "str", value |-> s]

\* bool(x) for None and for str
Truthy(x) == x.type = "str" /\ Len(x.value) > 0

\* not yet assigned
Unset == [type |-> "unset"]

-----------------------------------------------------------------------------
(* The transport: redata_request(method, url, headers, params) *)

HTTPError == [ok |-> FALSE, error |-> "HTTPError"]
Ok(body) == [ok |-> TRUE, body |-> body]

Returned(v) == [kind |-> "return", value |-> v]
Raised(e) == [kind |-> "raise", error |-> e]

endpoint(link, institute) == [institute |-> institute, link |-> link]

\* one HTTP exchange: the request and the transport's answer
Exchange(method, url, impersonate, response) ==
    [method |-> method, url |-> url, impersonate |-> impersonate,
     response |-> response]

\* one blocking read of the console: input(...)
ConsoleRead(text) == [method |-> "INPUT", text |-> text]

-----------------------------------------------------------------------------
(* Bounds of the DOI workflow *)

MaxInputLen == 3

ArticleIds == {1, 2}

InputChars == {"y", "Y", "e", "E", "s", "S", "n", "o"}

\* str.lower() on the characters of InputChars
LowerChar(c) ==
    CASE c = "Y" -> "y"
      [] c = "E" -> "e"
      [] c = "S" -> "s"
      [] OTHER -> c

\* a comparison that forgets .lower()
LowerAlt(s) == s
Lower(s) == [i \in 1..Len(s) |-> LowerChar(s[i])]

yes == <<"y", "e", "s">>

StringsUpTo(chars, len) == UNION {[1..k -> chars] : k \in 0..len}

\* the DOI field of an article as the API can give it
ExistingDoi == <<"1", "0", ".", "x">>
DoiFields == {PyNone, PyStr(<<>>), PyStr(ExistingDoi)}

\* the DOI the API mints for an article on reserve_doi
MintedDoi(a) == PyStr(<<"1", "0", ".", "m">> \o (IF a = 1 THEN <<"1">> ELSE <<"2">>))

-----------------------------------------------------------------------------
(* doi_check and reserve_doi *)

\* a check that tests "is not None" instead of truthiness
doi_checkAlt(article_details) == <<article_details.doi # PyNone, article_details.doi>>
\* doi_check, lines 292-296, on the fetched article details
doi_check(article_details) ==
    LET check == IF Truthy(article_details.doi) THEN TRUE ELSE FALSE
    IN  <<check, article_details.doi>>

\* the transport's answer to GET articles/{a} and POST articles/{a}/reserve_doi
ArticleDetails(a) ==
    IF server.get_ok THEN Ok([doi |-> server.doi[a]]) ELSE HTTPError
ReserveResponse(a) ==
    IF server.post_ok THEN Ok([doi |-> MintedDoi(a)]) ELSE HTTPError

GetArticle(a) ==
    Exchange("GET", endpoint(<<"articles", a>>, FALSE), PyNone, ArticleDetails(a))
PostReserve(a) ==
    Exchange("POST", endpoint(<<"articles", a, "reserve_doi">>, FALSE), PyNone,
             ReserveResponse(a))

\* doi_check(article_id) as a public method
DoiCheck ==
    /\ op = "doi_check" /\ pc = "start"
    /\ io' = Append(io, GetArticle(article_id))
    /\ LET resp == ArticleDetails(article_id) IN
         IF resp.ok
         THEN /\ result' = Returned(doi_check(resp.body))
              /\ pc' = "returned"
         ELSE /\ result' = Raised("HTTPError")
              /\ pc' = "raised"
    /\ UNCHANGED <<op, server, doiVars, admin_filter, ignore_admin,
                   accounts_df, aggVars>>

\* a reserve_doi that ignores the outcome of the check and always prompts
ReserveDoiCheckAlt ==
    /\ op = "reserve_doi" /\ pc = "start"
    /\ io' = Append(io, GetArticle(article_id))
    /\ LET resp == ArticleDetails(article_id) IN
         IF resp.ok
         THEN /\ doi_string' = doi_check(resp.body)[2]
              /\ pc' = "prompt"
              /\ UNCHANGED result
         ELSE /\ result' = Raised("HTTPError")
              /\ pc' = "raised"
              /\ UNCHANGED doi_string
    /\ UNCHANGED <<op, server, article_id, console, admin_filter,
                   ignore_admin, accounts_df, aggVars>>
\* reserve_doi, lines 304-312: the DOI check and its first branch
ReserveDoiCheck ==
    /\ op = "reserve_doi" /\ pc = "start"
    /\ io' = Append(io, GetArticle(article_id))
    /\ LET resp == ArticleDetails(article_id) IN
         IF resp.ok
         THEN LET chk == doi_check(resp.body) IN
              /\ doi_string' = chk[2]
              /\ IF chk[1]
                 THEN /\ result' = Returned(chk[2])
                      /\ pc' = "returned"
                 ELSE /\ pc' = "prompt"
                      /\ UNCHANGED result
         ELSE /\ result' = Raised("HTTPError")
              /\ pc' = "raised"
              /\ UNCHANGED doi_string
    /\ UNCHANGED <<op, server, article_id, console, admin_filter,
                   ignore_admin, accounts_df, aggVars>>

\* reserve_doi, lines 313-316 and 321-323: the prompt and the decline branch
ReserveDoiPrompt ==
    /\ op = "reserve_doi" /\ pc = "prompt"
    /\ io' = Append(io, ConsoleRead(console))
    /\ LET src_input == console IN
         IF Lower(src_input) = yes
         THEN /\ pc' = "post"
              /\ UNCHANGED result
         ELSE /\ result' = Returned(doi_string)
              /\ pc' = "returned"
    /\ UNCHANGED <<op, server, article_id, console, doi_string,
                   admin_filter, ignore_admin, accounts_df, aggVars>>

\* reserve_doi, lines 317-320: the mutating POST
ReserveDoiPost ==
    /\ op = "reserve_doi" /\ pc = "post"
    /\ io' = Append(io, PostReserve(article_id))
    /\ LET response == ReserveResponse(article_id) IN
         IF response.ok
         THEN /\ server' = [server EXCEPT !.doi[article_id] = response.body.doi]
              /\ result' = Returned(response.body.doi)
              /\ pc' = "returned"
         ELSE /\ result' = Raised("HTTPError")
              /\ pc' = "raised"
              /\ UNCHANGED server
    /\ UNCHANGED <<op, doiVars, admin_filter, ignore_admin, accounts_df,
                   aggVars>>

InitDoi ==
    /\ op \in {"doi_check", "reserve_doi"}
    /\ pc = "start"
    /\ server \in [doi : [ArticleIds -> DoiFields], get_ok : BOOLEAN,
                   post_ok : BOOLEAN]
    /\ io = <<>>
    /\ article_id \in ArticleIds
    /\ console \in StringsUpTo(InputChars, MaxInputLen)
    /\ doi_string = Unset
    /\ admin_filter = PyNone
    /\ ignore_admin = FALSE
    /\ flag = TRUE
    /\ accounts_df = <<>>
    /\ groups_df = <<>>
    /\ n = 0
    /\ roles = <<>>
    /\ num_articles = <<>>
    /\ num_projects = <<>>
    /\ num_collections = <<>>
    /\ admin_flag = <<>>
    /\ reviewer_flag = <<>>
    /\ group_assoc = <<>>
    /\ result = Unset

NextDoi ==
    \/ DoiCheck
    \/ ReserveDoiCheck
    \/ ReserveDoiPrompt
    \/ ReserveDoiPost

SpecDoi == InitDoi /\ [][NextDoi]_vars

-----------------------------------------------------------------------------
(* pandas: DataFrame, column-oriented *)

\* pd.DataFrame(records): one column per key of the records, index 0..len-1;
\* an empty list gives a frame with no columns
DataFrame(records) ==
    [index |-> [i \in 1..Len(records) |-> i - 1],
     data  |-> [c \in (IF Len(records) = 0 THEN {} ELSE DOMAIN records[1]) |->
                  [i \in 1..Len(records) |-> records[i][c]]]]

shape0(df) == Len(df.index)

Columns(df) == DOMAIN df.data

\* df.drop(columns=c), for c a column of df
DropColumn(df, c) ==
    [df EXCEPT !.data = [k \in (DOMAIN df.data) \ {c} |-> df.data[k]]]

\* df[name] = values
SetColumn(df, name, values) ==
    [df EXCEPT !.data = [k \in (DOMAIN df.data) \cup {name} |->
                            IF k = name THEN values ELSE df.data[k]]]

\* the positions, in order, whose index label is not in `dropped`
RECURSIVE KeptPositions(_, _, _)
KeptPositions(labels, dropped, i) ==
    IF i > Len(labels) THEN <<>>
    ELSE IF labels[i] \in dropped
         THEN KeptPositions(labels, dropped, i + 1)
         ELSE <<i>> \o KeptPositions(labels, dropped, i + 1)

\* df.drop(drop_index): the rows whose index label is not in drop_index
DropRows(df, drop_index) ==
    LET keep == KeptPositions(df.index, drop_index, 1) IN
    [index |-> [i \in 1..Len(keep) |-> df.index[keep[i]]],
     data  |-> [c \in DOMAIN df.data |->
                  [i \in 1..Len(keep) |-> df.data[c][keep[i]]]]]

\* df.reset_index(drop=True)
reset_index(df) == [df EXCEPT !.index = [i \in 1..Len(df.index) |-> i - 1]]

\* Series.str.contains(pat) with its default regex=True, i.e. re.search(pat, s),
\* for patterns made of ordinary characters and ".", which matches any character
MatchesAt(s, pat, at) ==
    \A j \in 1..Len(pat) : pat[j] = "." \/ pat[j] = s[at + j - 1]

str_contains(s, pat) ==
    \E at \in 1..(Len(s) - Len(pat) + 1) : MatchesAt(s, pat, at)

-----------------------------------------------------------------------------
(* get_account_list *)

GetAccounts == endpoint(<<"accounts">>, TRUE)

\* lines 154-158: the index labels collected over the filters, then dropped
FilterAccounts(df, filter) ==
    LET drop_index == {df.index[i] : i \in
                          {i \in 1..shape0(df) :
                              \E f \in 1..Len(filter) :
                                  str_contains(df.data["email"][i], filter[f])}}
    IN  reset_index(DropRows(df, drop_index))

\* lines 148-159 on the decoded JSON list `accounts`
get_account_list(accounts) ==
    LET df == DataFrame(accounts) IN
    IF "institution_id" \notin Columns(df)
    THEN Raised("KeyError")
    ELSE LET dropped == DropColumn(df, "institution_id") IN
         IF ignore_admin
         THEN Returned(FilterAccounts(dropped, admin_filter.value))
         ELSE Returned(dropped)

\* get_account_list as a public method, and as line 179 of get_account_details
GetAccountList ==
    /\ op \in {"get_account_list", "get_account_details"} /\ pc = "start"
    /\ io' = Append(io, Exchange("GET", GetAccounts, PyNone, server.accounts))
    /\ IF ~server.accounts.ok
       THEN /\ result' = Raised("HTTPError")
            /\ pc' = "raised"
            /\ UNCHANGED accounts_df
       ELSE LET got == get_account_list(server.accounts.body) IN
            IF got.kind = "raise"
            THEN /\ result' = got
                 /\ pc' = "raised"
                 /\ UNCHANGED accounts_df
            ELSE IF op = "get_account_list"
                 THEN /\ result' = got
                      /\ pc' = "returned"
                      /\ UNCHANGED accounts_df
                 ELSE /\ accounts_df' = got.value
                      /\ pc' = "groups"
                      /\ UNCHANGED result
    /\ UNCHANGED <<op, server, doiVars, admin_filter, ignore_admin, aggVars>>

-----------------------------------------------------------------------------
(* get_account_details *)

EmptyStr == <<>>
NA == <<"N", "/", "A">>
X == <<"X">>

Digits == <<"0", "1", "2", "3", "4", "5", "6", "7", "8", "9">>

\* str(i) for an integer i >= 0
RECURSIVE str(_)
str(i) == IF i < 10 THEN <<Digits[i + 1]>>
          ELSE str(i \div 10) \o <<Digits[(i % 10) + 1]>>

\* s.replace(old, new) for a non-empty old: leftmost non-overlapping occurrences
RECURSIVE str_replace(_, _, _)
str_replace(s, old, new) ==
    IF Len(s) < Len(old) THEN s
    ELSE IF SubSeq(s, 1, Len(old)) = old
         THEN new \o str_replace(SubSeq(s, Len(old) + 1, Len(s)), old, new)
         ELSE <<s[1]>> \o str_replace(Tail(s), old, new)

\* np.zeros(k, dtype=np.int) and [v] * k
Filled(k, v) == [i \in 1..k |-> v]

\* a count stored without the loop index, always in the first row
CountOrZeroAlt(arr, at, response) ==
    IF response.ok
    THEN [arr EXCEPT ![1] = shape0(DataFrame(response.body))]
    ELSE arr
\* lines 199-203 (and 205-209, 211-215): try: arr[n] = df.shape[0];
\* except HTTPError: log a warning
CountOrZero(arr, at, response) ==
    IF response.ok
    THEN [arr EXCEPT ![at + 1] = shape0(DataFrame(response.body))]
    ELSE arr

\* a scan that keeps the first key with a record of id 11 instead of the last
ScanRecordAlt(acc, key, t_dict) ==
    LET g == IF t_dict.id = 11 /\ acc.group = NA THEN key ELSE acc.group
        a == IF flag /\ t_dict.id = 2 THEN X ELSE acc.admin
        r == IF flag /\ t_dict.id = 49 THEN X ELSE acc.reviewer
    IN  [group |-> g, admin |-> a, reviewer |-> r]
\* lines 219-225 for one role record t_dict found under `key`
ScanRecord(acc, key, t_dict) ==
    LET g == IF t_dict.id = 11 THEN key ELSE acc.group
        a == IF flag /\ t_dict.id = 2 THEN X ELSE acc.admin
        r == IF flag /\ t_dict.id = 49 THEN X ELSE acc.reviewer
    IN  [group |-> g, admin |-> a, reviewer |-> r]

\* line 218: for t_dict in roles[key]
RECURSIVE ScanRecords(_, _, _, _)
ScanRecords(acc, key, records, j) ==
    IF j > Len(records) THEN acc
    ELSE ScanRecords(ScanRecord(acc, key, records[j]), key, records, j + 1)

\* line 217: for key in roles.keys(), in the dictionary's order
RECURSIVE ScanRoles(_, _, _)
ScanRoles(acc, rls, k) ==
    IF k > Len(rls) THEN acc
    ELSE ScanRoles(ScanRecords(acc, rls[k].key, rls[k].records, 1), rls, k + 1)

\* lines 235-238: one replacement pass over every account per group, in the
\* order of the group list
RECURSIVE ReplaceGroups(_, _, _)
ReplaceGroups(assoc, gdf, g) ==
    IF g > shape0(gdf) THEN assoc
    ELSE ReplaceGroups(
             [i \in 1..Len(assoc) |->
                 str_replace(assoc[i], str(gdf.data["id"][g]), gdf.data["name"][g])],
             gdf, g + 1)

n_accounts == shape0(accounts_df)
account_id == accounts_df.data["id"][n + 1]

Impersonated(link, account, response) ==
    Exchange("GET", endpoint(<<link>>, FALSE), account, response)

\* a group fetch whose failure is caught like those of the loop, leaving an
\* empty group table
GetGroupsAlt ==
    /\ op = "get_account_details" /\ pc = "groups"
    /\ io' = Append(io, Exchange("GET", endpoint(<<"groups">>, TRUE), PyNone,
                                 server.groups))
    /\ groups_df' = IF server.groups.ok THEN DataFrame(server.groups.body)
                    ELSE DataFrame(<<>>)
    /\ num_articles' = Filled(n_accounts, 0)
    /\ num_projects' = Filled(n_accounts, 0)
    /\ num_collections' = Filled(n_accounts, 0)
    /\ IF flag
       THEN /\ admin_flag' = Filled(n_accounts, EmptyStr)
            /\ reviewer_flag' = Filled(n_accounts, EmptyStr)
       ELSE UNCHANGED <<admin_flag, reviewer_flag>>
    /\ group_assoc' = Filled(n_accounts, NA)
    /\ pc' = IF n_accounts > 0 THEN "roles" ELSE "attach"
    /\ UNCHANGED <<op, server, doiVars, admin_filter, ignore_admin,
                   accounts_df, flag, n, roles, result>>
\* lines 181-193: the group list, then the accumulators
GetGroups ==
    /\ op = "get_account_details" /\ pc = "groups"
    /\ io' = Append(io, Exchange("GET", endpoint(<<"groups">>, TRUE), PyNone,
                                 server.groups))
    /\ IF ~server.groups.ok
       THEN /\ result' = Raised("HTTPError")
            /\ pc' = "raised"
            /\ UNCHANGED <<groups_df, num_articles, num_projects,
                           num_collections, admin_flag, reviewer_flag,
                           group_assoc>>
       ELSE /\ groups_df' = DataFrame(server.groups.body)
            /\ num_articles' = Filled(n_accounts, 0)
            /\ num_projects' = Filled(n_accounts, 0)
            /\ num_collections' = Filled(n_accounts, 0)
            /\ IF flag
               THEN /\ admin_flag' = Filled(n_accounts, EmptyStr)
                    /\ reviewer_flag' = Filled(n_accounts, EmptyStr)
               ELSE UNCHANGED <<admin_flag, reviewer_flag>>
            /\ group_assoc' = Filled(n_accounts, NA)
            /\ pc' = IF n_accounts > 0 THEN "roles" ELSE "attach"
            /\ UNCHANGED result
    /\ UNCHANGED <<op, server, doiVars, admin_filter, ignore_admin,
                   accounts_df, flag, n, roles>>

\* lines 196-197: the roles of the current account; nothing catches a failure
GetAccountGroupRoles ==
    /\ op = "get_account_details" /\ pc = "roles"
    /\ LET response == server.roles[account_id] IN
       /\ io' = Append(io, Exchange("GET", endpoint(<<"roles", account_id>>, TRUE),
                                    PyNone, response))
       /\ IF response.ok
          THEN /\ roles' = response.body
               /\ pc' = "articles"
               /\ UNCHANGED result
          ELSE /\ result' = Raised("HTTPError")
               /\ pc' = "raised"
               /\ UNCHANGED roles
    /\ UNCHANGED <<op, server, doiVars, admin_filter, ignore_admin,
                   accounts_df, flag, groups_df, n, num_articles,
                   num_projects, num_collections, admin_flag, reviewer_flag,
                   group_assoc>>

\* lines 199-203
GetUserArticles ==
    /\ op = "get_account_details" /\ pc = "articles"
    /\ LET response == server.articles[account_id] IN
       /\ io' = Append(io, Impersonated("articles", account_id, response))
       /\ num_articles' = CountOrZero(num_articles, n, response)
    /\ pc' = "projects"
    /\ UNCHANGED <<op, server, doiVars, admin_filter, ignore_admin,
                   accounts_df, flag, groups_df, n, roles, num_projects,
                   num_collections, admin_flag, reviewer_flag, group_assoc,
                   result>>

\* lines 205-209
GetUserProjects ==
    /\ op = "get_account_details" /\ pc = "projects"
    /\ LET response == server.projects[account_id] IN
       /\ io' = Append(io, Impersonated("projects", account_id, response))
       /\ num_projects' = CountOrZero(num_projects, n, response)
    /\ pc' = "collections"
    /\ UNCHANGED <<op, server, doiVars, admin_filter, ignore_admin,
                   accounts_df, flag, groups_df, n, roles, num_articles,
                   num_collections, admin_flag, reviewer_flag, group_assoc,
                   result>>

\* lines 211-225: the collections, the scan of the roles, the next account
GetUserCollections ==
    /\ op = "get_account_details" /\ pc = "collections"
    /\ LET response == server.collections[account_id] IN
       /\ io' = Append(io, Impersonated("collections", account_id, response))
       /\ num_collections' = CountOrZero(num_collections, n, response)
    /\ LET before == [group |-> group_assoc[n + 1],
                      admin |-> IF flag THEN admin_flag[n + 1] ELSE Unset,
                      reviewer |-> IF flag THEN reviewer_flag[n + 1] ELSE Unset]
           after == ScanRoles(before, roles, 1)
       IN  /\ group_assoc' = [group_assoc EXCEPT ![n + 1] = after.group]
           /\ IF flag
              THEN /\ admin_flag' = [admin_flag EXCEPT ![n + 1] = after.admin]
                   /\ reviewer_flag' =
                          [reviewer_flag EXCEPT ![n + 1] = after.reviewer]
              ELSE UNCHANGED <<admin_flag, reviewer_flag>>
    /\ n' = n + 1
    /\ pc' = IF n + 1 < n_accounts THEN "roles" ELSE "attach"
    /\ UNCHANGED <<op, server, doiVars, admin_filter, ignore_admin,
                   accounts_df, flag, groups_df, roles, num_articles,
                   num_projects, result>>

\* flag columns attached the wrong way round
WithCountsAlt ==
    LET a == SetColumn(accounts_df, "Articles", num_articles)
        p == SetColumn(a, "Projects", num_projects)
        c == SetColumn(p, "Collections", num_collections)
    IN  IF flag
        THEN SetColumn(SetColumn(c, "Admin", reviewer_flag), "Reviewer", admin_flag)
        ELSE c
\* lines 227-233: the count columns, and the flag columns if requested
WithCounts ==
    LET a == SetColumn(accounts_df, "Articles", num_articles)
        p == SetColumn(a, "Projects", num_projects)
        c == SetColumn(p, "Collections", num_collections)
    IN  IF flag
        THEN SetColumn(SetColumn(c, "Admin", admin_flag), "Reviewer", reviewer_flag)
        ELSE c

\* lines 227-241: the columns, the group names, the return
AttachColumns ==
    /\ op = "get_account_details" /\ pc = "attach"
    /\ IF {"id", "name"} \subseteq Columns(groups_df)
       THEN /\ group_assoc' = ReplaceGroups(group_assoc, groups_df, 1)
            /\ accounts_df' = SetColumn(WithCounts, "Group", group_assoc')
            /\ result' = Returned(accounts_df')
            /\ pc' = "returned"
       ELSE /\ accounts_df' = WithCounts
            /\ result' = Raised("KeyError")
            /\ pc' = "raised"
            /\ UNCHANGED group_assoc
    /\ UNCHANGED <<op, server, io, doiVars, admin_filter, ignore_admin,
                   flag, groups_df, n, roles, num_articles, num_projects,
                   num_collections, admin_flag, reviewer_flag>>

NextAccounts ==
    \/ GetAccountList
    \/ GetGroups
    \/ GetAccountGroupRoles
    \/ GetUserArticles
    \/ GetUserProjects
    \/ GetUserCollections
    \/ AttachColumns

-----------------------------------------------------------------------------
(* Bounds and inputs of the account operations *)

MaxAccounts == 2       \* accounts in the list, for get_account_details
MaxListAccounts == 3   \* accounts in the list, for get_account_list alone
MaxFilters == 2        \* entries of admin_filter
MaxGroups == 2         \* groups in the group list

PyList(xs) == [type |-> "list", value |-> xs]

SeqsUpTo(S, len) == UNION {[1..k -> S] : k \in 0..len}

\* the i-th account of the list; the ids are not in ascending order
AccountIdAt(i) == 50 - i
Account(i, email) ==
    [id |-> AccountIdAt(i), email |-> email, institution_id |-> 1]
AccountLists(emails, len) ==
    {[i \in 1..Len(es) |-> Account(i, es[i])] : es \in SeqsUpTo(emails, len)}
Ids(accounts) == {accounts[i].id : i \in 1..Len(accounts)}

a_x_o == <<"a", "@", "x", ".", "o">>
t_x_o == <<"t", "@", "x", ".", "o">>
b_xyo == <<"b", "@", "x", "y", "o">>
a_t == <<"a", "@", "t">>

ListEmails == {a_x_o, t_x_o, b_xyo, a_t}
ListFilters == {<<"t">>, <<"x", ".", "o">>, <<"a", "@">>, <<>>}

\* the rows a user's articles / projects / collections listing holds
RowsHeld(resource, id) ==
    LET shift == CASE resource = "articles" -> 0
                   [] resource = "projects" -> 1
                   [] resource = "collections" -> 2
    IN  [i \in 1..((id + shift) % 3) |-> [id |-> i]]

Failing(mayFail) == IF mayFail THEN {HTTPError} ELSE {}

\* the answers to the listings of one resource, one per account
ListingAnswers(resource, ids, mayFail) ==
    LET any == {Ok(RowsHeld(resource, id)) : id \in ids} \cup Failing(mayFail)
    IN  {f \in [ids -> any] :
            \A id \in ids : f[id].ok => f[id] = Ok(RowsHeld(resource, id))}

Group(id, name) == [id |-> id, name |-> name]
GroupSet == {Group(1, <<"A">>), Group(12, <<"B">>), Group(2, <<"G", "1", "2">>),
             Group(1, <<"C">>)}

Role(id) == [id |-> id, name |-> <<>>]
Entry(key, ids) == [key |-> key, records |-> [j \in 1..Len(ids) |-> Role(ids[j])]]
RoleDicts ==
    { <<>>,
      <<Entry(<<"1">>, <<11>>)>>,
      <<Entry(<<"1", "2">>, <<2, 11>>)>>,
      <<Entry(<<"2">>, <<11, 49>>)>>,
      <<Entry(<<"3">>, <<11>>)>>,
      <<Entry(<<"1">>, <<11>>), Entry(<<"2">>, <<11, 2>>)>>,
      <<Entry(<<"1", "2">>, <<11>>), Entry(<<"3">>, <<11>>)>>,
      <<Entry(<<"2">>, <<7, 49>>), Entry(<<"1">>, <<2>>)>> }

\* the answers of the API to one run of get_account_details
Servers(accountLists, groupLists, roleAnswers, mayFail) ==
    UNION {
      [accounts : {Ok(accounts)} \cup Failing(mayFail),
       groups : {Ok(g) : g \in groupLists} \cup Failing(mayFail),
       roles : [Ids(accounts) -> roleAnswers \cup Failing(mayFail)],
       articles : ListingAnswers("articles", Ids(accounts), mayFail),
       projects : ListingAnswers("projects", Ids(accounts), mayFail),
       collections : ListingAnswers("collections", Ids(accounts), mayFail)]
      : accounts \in accountLists }

\* the answers of the API to one run of get_account_list
ListServers ==
    [accounts : {Ok(l) : l \in AccountLists(ListEmails, MaxListAccounts)}
                    \cup {HTTPError}]

InitAccounts(ops, flags, filters, servers) ==
    /\ op \in ops
    /\ pc = "start"
    /\ server \in servers
    /\ io = <<>>
    /\ article_id = 0
    /\ console = <<>>
    /\ doi_string = Unset
    /\ admin_filter \in filters
    /\ ignore_admin = (admin_filter # PyNone)
    /\ flag \in flags
    /\ accounts_df = Unset
    /\ groups_df = Unset
    /\ n = 0
    /\ roles = Unset
    /\ num_articles = Unset
    /\ num_projects = Unset
    /\ num_collections = Unset
    /\ admin_flag = Unset
    /\ reviewer_flag = Unset
    /\ group_assoc = Unset
    /\ result = Unset

\* get_account_list alone: many emails and filters
InitList ==
    InitAccounts({"get_account_list"}, {TRUE},
                 {PyNone} \cup {PyList(f) : f \in SeqsUpTo(ListFilters, MaxFilters)},
                 ListServers)

NextList == GetAccountList

SpecList == InitList /\ [][NextList]_vars

\* get_account_details where any request may fail
InitFetch ==
    InitAccounts({"get_account_details"}, BOOLEAN,
                 {PyNone, PyList(<<<<"t">>>>)},
                 Servers(AccountLists({a_x_o, t_x_o}, MaxAccounts),
                         {<<Group(1, <<"A">>)>>},
                         {Ok(<<Entry(<<"1">>, <<11, 2>>)>>)}, TRUE))

SpecFetch == InitFetch /\ [][NextAccounts]_vars

\* get_account_details over many group lists and role structures
InitGroups ==
    InitAccounts({"get_account_details"}, BOOLEAN, {PyNone},
                 Servers(AccountLists({a_x_o}, MaxAccounts),
                         SeqsUpTo(GroupSet, MaxGroups),
                         {Ok(d) : d \in RoleDicts}, FALSE))

SpecGroups == InitGroups /\ [][NextAccounts]_vars

-----------------------------------------------------------------------------
(* Properties of the DOI workflow, checked under SpecDoi *)

Finished == pc \in {"returned", "raised"}

\* the DOI field the article-details GET delivered (the first exchange)
FetchedDoi == io[1].response.body.doi
Fetched == Len(io) >= 1 /\ io[1].method = "GET" /\ io[1].response.ok

Posted == \E i \in 1..Len(io) : io[i].method = "POST"
Prompted == \E i \in 1..Len(io) : io[i].method = "INPUT"

\* the affirmative answers: the three letters of "yes" in either case
Affirmative(s) ==
    /\ Len(s) = 3
    /\ s[1] \in {"y", "Y"}
    /\ s[2] \in {"e", "E"}
    /\ s[3] \in {"s", "S"}

\* C1: on an article whose fetched DOI field is non-empty, reserve_doi issues
\* no POST, reads no operator input, and returns exactly the fetched DOI.
C1_ReservedNoPost ==
    (op = "reserve_doi" /\ Fetched /\ Truthy(FetchedDoi))
        => /\ ~Posted
           /\ ~Prompted
           /\ Len(io) = 1
           /\ io[1].url = endpoint(<<"articles", article_id>>, FALSE)
           /\ pc = "returned"
           /\ result = Returned(FetchedDoi)

C1_Witness ==
    /\ op = "reserve_doi" /\ Fetched /\ Truthy(FetchedDoi)
    /\ pc = "returned"

\* what C2 says of the exchanges, whatever is returned on a decline: the POST
\* is issued exactly on an affirmative answer, as the third event after the
\* GET and the console read, and its DOI is what a normal return delivers.
C2_PostIffYes ==
    /\ Posted <=> Affirmative(console)
    /\ Posted =>
          /\ Len(io) = 3
          /\ io[2] = ConsoleRead(console)
          /\ io[3].method = "POST"
          /\ io[3].url = endpoint(<<"articles", article_id, "reserve_doi">>, FALSE)
          /\ pc = "returned" => result = Returned(io[3].response.body.doi)
    /\ ~Posted => Len(io) = 2 /\ io[2] = ConsoleRead(console) /\ pc = "returned"

\* C2 as claimed: unreserved article; POST iff the answer lower-cased is
\* "yes", after the GET and the prompt, returning the POST's DOI; otherwise no
\* POST and the value returned is null.
C2_Original ==
    (op = "reserve_doi" /\ Fetched /\ ~Truthy(FetchedDoi) /\ Finished)
        => /\ C2_PostIffYes
           /\ ~Posted => result = Returned(PyNone)

\* C2 as amended: on a decline the value returned is the fetched DOI field
\* unchanged, which is null or the empty string.
C2_Amended ==
    (op = "reserve_doi" /\ Fetched /\ ~Truthy(FetchedDoi) /\ Finished)
        => /\ C2_PostIffYes
           /\ ~Posted => /\ result = Returned(FetchedDoi)
                         /\ FetchedDoi \in {PyNone, PyStr(<<>>)}

C2_Witness ==
    /\ op = "reserve_doi" /\ Fetched /\ ~Truthy(FetchedDoi)
    /\ pc = "returned" /\ Posted
    /\ console = <<"Y", "e", "s">>

\* C8 as claimed: doi_check returns (true, d) for a non-empty DOI field d and
\* (false, null) for an empty or null one.
C8_Original ==
    (op = "doi_check" /\ pc = "returned")
        => result.value = IF Truthy(FetchedDoi) THEN <<TRUE, FetchedDoi>>
                          ELSE <<FALSE, PyNone>>

\* C8 as amended: for an empty or null DOI field doi_check returns false and
\* the field as fetched: null for null, the empty string for the empty string.
C8_Amended ==
    (op = "doi_check" /\ pc = "returned")
        => /\ Fetched /\ Len(io) = 1
           /\ io[1].url = endpoint(<<"articles", article_id>>, FALSE)
           /\ result.value = IF Truthy(FetchedDoi) THEN <<TRUE, FetchedDoi>>
                             ELSE <<FALSE, FetchedDoi>>

C8_Witness ==
    /\ op = "doi_check" /\ pc = "returned"
    /\ FetchedDoi = PyStr(<<>>)
    /\ result.value[1] = FALSE

-----------------------------------------------------------------------------
(* Properties of get_account_list, checked under SpecList *)

\* s contains pat as a literal substring
HasSubstring(s, pat) ==
    \E at \in 0..(Len(s) - Len(pat)) : SubSeq(s, at + 1, at + Len(pat)) = pat

ListedAccounts == server.accounts.body

Column(rows, c) == [i \in 1..Len(rows) |-> rows[i][c]]

\* the frame holds exactly `rows`, in order, indexed 0, 1, 2, ...
HoldsRows(df, rows) ==
    /\ df.index = [i \in 1..Len(rows) |-> i - 1]
    /\ {"id", "email"} \subseteq Columns(df)
    /\ df.data["id"] = Column(rows, "id")
    /\ df.data["email"] = Column(rows, "email")

\* C7: with an admin filter configured, get_account_list returns exactly the
\* accounts whose email contains none of the filter substrings, in their
\* original order, indexed contiguously from 0.
C7_SubstringFilter ==
    (op = "get_account_list" /\ pc = "returned" /\ admin_filter # PyNone)
        => LET NoSubstring(a) ==
                   \A f \in 1..Len(admin_filter.value) :
                       ~HasSubstring(a.email, admin_filter.value[f])
           IN  HoldsRows(result.value, SelectSeq(ListedAccounts, NoSubstring))

\* what the code does instead: the filters are regular expressions
AccountListByRegex ==
    (op = "get_account_list" /\ pc = "returned" /\ admin_filter # PyNone)
        => LET NoMatch(a) ==
                   \A f \in 1..Len(admin_filter.value) :
                       ~str_contains(a.email, admin_filter.value[f])
           IN  HoldsRows(result.value, SelectSeq(ListedAccounts, NoMatch))

\* the example of the claim: [a@x.o, t@x.o, b@xyo] filtered by ["t"]
AccountListExample ==
    /\ op = "get_account_list" /\ pc = "returned"
    /\ admin_filter = PyList(<<<<"t">>>>)
    /\ Column(ListedAccounts, "email") = <<a_x_o, t_x_o, b_xyo>>
    /\ result.value.data["email"] = <<a_x_o, b_xyo>>

-----------------------------------------------------------------------------
(* Properties of get_account_details, checked under SpecFetch and SpecGroups *)

Details == op = "get_account_details"
TableReturned == Details /\ pc = "returned"
Table == result.value

Failed(e) == ~e.response.ok

IsListing(e) ==
    /\ ~e.url.institute
    /\ e.url.link \in {<<"articles">>, <<"projects">>, <<"collections">>}
IsRoles(e) == e.url.institute /\ e.url.link[1] = "roles"
PerAccount(e) == IsListing(e) \/ IsRoles(e)

\* the accounts the admin filter lets through, as the code applies it
Survives(a) ==
    ~ignore_admin \/ \A f \in 1..Len(admin_filter.value) :
                         ~str_contains(a.email, admin_filter.value[f])
Survivors == SelectSeq(ListedAccounts, Survives)

\* every request of an account has been issued
Processed(id) ==
    /\ \E i \in 1..Len(io) : io[i].url = endpoint(<<"roles", id>>, TRUE)
    /\ \A link \in {"articles", "projects", "collections"} :
          \E i \in 1..Len(io) :
              io[i].url = endpoint(<<link>>, FALSE) /\ io[i].impersonate = id

CountColumn(link) ==
    CASE link = "articles" -> "Articles"
      [] link = "projects" -> "Projects"
      [] link = "collections" -> "Collections"

\* the row of the returned table that holds account id
RowOf(id) == CHOOSE r \in 1..shape0(Table) : Table.data["id"][r] = id

\* C3: if a per-account fetch of articles, projects or collections raises an
\* HTTP error, that count is zero in the returned table, every account is
\* still processed, and the aggregation returns a table instead of raising.
C3_ListingFailureTolerated ==
    (Details /\ Finished /\ \E i \in 1..Len(io) : IsListing(io[i]) /\ Failed(io[i]))
        => /\ pc = "returned"
           /\ \A s \in 1..Len(Survivors) : Processed(Survivors[s].id)
           /\ \A i \in 1..Len(io) :
                 (IsListing(io[i]) /\ Failed(io[i]))
                     => Table.data[CountColumn(io[i].url.link[1])]
                                  [RowOf(io[i].impersonate)] = 0

\* what does hold of a failed listing: it is not what raises, and the next
\* request of the same account follows it
ListingFailureIsolated ==
    Details =>
        \A i \in 1..Len(io) :
            (IsListing(io[i]) /\ Failed(io[i]))
                => /\ (pc = "raised" => i < Len(io) /\ IsRoles(io[Len(io)]))
                   /\ (i = Len(io) /\ io[i].url.link[1] = "articles")
                          => pc = "projects"
                   /\ (i = Len(io) /\ io[i].url.link[1] = "projects")
                          => pc = "collections"
                   /\ (i = Len(io) /\ io[i].url.link[1] = "collections")
                          => pc \in {"roles", "attach", "returned"}

\* C4: a failed roles fetch for one account never fails the aggregation: the
\* remaining accounts are still processed and a table is returned.
C4_RolesFailureTolerated ==
    (Details /\ Finished /\ \E i \in 1..Len(io) : IsRoles(io[i]) /\ Failed(io[i]))
        => /\ pc = "returned"
           /\ \A s \in 1..Len(Survivors) :
                 \E i \in 1..Len(io) :
                     io[i].url = endpoint(<<"roles", Survivors[s].id>>, TRUE)

ExpectedCount(response) == IF response.ok THEN Len(response.body) ELSE 0

\* C5: the returned table has exactly one row per account that survived the
\* admin filter, in the order of the account list, and the article, project
\* and collection counts of each row are integers: zero when the fetch
\* failed, the number of fetched rows otherwise.
C5_OneRowPerSurvivor ==
    TableReturned =>
        /\ HoldsRows(Table, Survivors)
        /\ {"Articles", "Projects", "Collections"} \subseteq Columns(Table)
        /\ \A c \in Columns(Table) : Len(Table.data[c]) = Len(Survivors)
        /\ \A s \in 1..Len(Survivors) :
              LET id == Survivors[s].id IN
              /\ Table.data["Articles"][s] = ExpectedCount(server.articles[id])
              /\ Table.data["Projects"][s] = ExpectedCount(server.projects[id])
              /\ Table.data["Collections"][s] = ExpectedCount(server.collections[id])
              /\ {Table.data["Articles"][s], Table.data["Projects"][s],
                  Table.data["Collections"][s]} \subseteq Nat

C5_Witness ==
    /\ TableReturned
    /\ Len(ListedAccounts) > Len(Survivors)
    /\ \E s \in 1..Len(Survivors) :
          /\ ~server.articles[Survivors[s].id].ok
          /\ server.projects[Survivors[s].id].ok
          /\ Table.data["Projects"][s] > 0
          /\ Table.data["Articles"][s] = 0

\* C10: the account list is fetched first and the group list second, both
\* before any per-account request; if either fails, the HTTPError reaches the
\* caller, no table is returned and no per-account request is issued.
C10_ListsFirstAndFatal ==
    Details =>
        /\ Len(io) >= 1 => io[1].method = "GET" /\ io[1].url = endpoint(<<"accounts">>, TRUE)
        /\ Len(io) >= 2 => io[2].method = "GET" /\ io[2].url = endpoint(<<"groups">>, TRUE)
        /\ \A i \in 3..Len(io) : PerAccount(io[i])
        /\ (\E i \in 1..Len(io) : i <= 2 /\ Failed(io[i]))
              => /\ pc = "raised"
                 /\ result = Raised("HTTPError")
                 /\ \A i \in 1..Len(io) : ~PerAccount(io[i])
                 /\ Failed(io[Len(io)])

C10_Witness ==
    /\ Details
    /\ Len(io) = 2 /\ Failed(io[2])
    /\ shape0(accounts_df) > 0
    /\ pc = "raised"

-----------------------------------------------------------------------------
(* Properties of the group and flag columns, checked under SpecGroups *)

ListedGroups == server.groups.body
RolesOf(id) == server.roles[id].body

HasRole(entry, id) == \E j \in 1..Len(entry.records) : entry.records[j].id = id
HasRoleAnywhere(rls, id) == \E k \in 1..Len(rls) : HasRole(rls[k], id)

\* the position of the last key of rls under which a record has id 11
LastCurated(rls) ==
    CHOOSE k \in 1..Len(rls) :
        HasRole(rls[k], 11) /\ \A m \in (k + 1)..Len(rls) : ~HasRole(rls[m], 11)

\* C6 as claimed: if a record with id 11 appears under a key that is the id of
\* a listed group, Group is the name of such a group, for any group list; with
\* no record of id 11, Group is 'N/A'.
C6_Original ==
    TableReturned =>
        \A s \in 1..shape0(Table) :
            LET rls == RolesOf(Table.data["id"][s])
                Resolves(k, g) == /\ HasRole(rls[k], 11)
                                  /\ rls[k].key = str(ListedGroups[g].id)
            IN  /\ (\E k \in 1..Len(rls), g \in 1..Len(ListedGroups) : Resolves(k, g))
                      => \E k \in 1..Len(rls), g \in 1..Len(ListedGroups) :
                             /\ Resolves(k, g)
                             /\ Table.data["Group"][s] = ListedGroups[g].name
                /\ ~HasRoleAnywhere(rls, 11) => Table.data["Group"][s] = NA

\* C6 as amended: Group is the name of group g when the last key holding a
\* record of id 11 is the id of g, no group listed before g has an id that
\* occurs within that key, and no group listed after g has an id that occurs
\* within the name of g; with no record of id 11, Group is 'N/A'.
C6_Amended ==
    TableReturned =>
        \A s \in 1..shape0(Table) :
            LET rls == RolesOf(Table.data["id"][s]) IN
            /\ HasRoleAnywhere(rls, 11) =>
                  \A g \in 1..Len(ListedGroups) :
                      ( /\ rls[LastCurated(rls)].key = str(ListedGroups[g].id)
                        /\ \A b \in 1..(g - 1) :
                              ~HasSubstring(rls[LastCurated(rls)].key,
                                            str(ListedGroups[b].id))
                        /\ \A l \in (g + 1)..Len(ListedGroups) :
                              ~HasSubstring(ListedGroups[g].name,
                                            str(ListedGroups[l].id)) )
                      => Table.data["Group"][s] = ListedGroups[g].name
            /\ ~HasRoleAnywhere(rls, 11) => Table.data["Group"][s] = NA

C6_Witness ==
    /\ TableReturned
    /\ Len(ListedGroups) = 2
    /\ \E s \in 1..shape0(Table) :
          LET rls == RolesOf(Table.data["id"][s]) IN
          /\ Len(rls) = 2 /\ HasRole(rls[1], 11) /\ HasRole(rls[2], 11)
          /\ rls[2].key = str(ListedGroups[2].id)
          /\ Table.data["Group"][s] = ListedGroups[2].name

FlagOf(rls, id) == IF HasRoleAnywhere(rls, id) THEN X ELSE EmptyStr

\* C9 as claimed: with the flag argument true, Admin is the marker exactly
\* for the accounts with a record of id 2 and Reviewer exactly for those with
\* a record of id 49, the empty string otherwise; with the flag argument
\* false, both flag arrays are entirely empty strings.
C9_Original ==
    TableReturned =>
        /\ {"Admin", "Reviewer"} \subseteq Columns(Table)
        /\ \A s \in 1..shape0(Table) :
              LET rls == RolesOf(Table.data["id"][s]) IN
              /\ Table.data["Admin"][s] = IF flag THEN FlagOf(rls, 2) ELSE EmptyStr
              /\ Table.data["Reviewer"][s] = IF flag THEN FlagOf(rls, 49) ELSE EmptyStr

\* C9 as amended: with the flag argument false the flag arrays are never
\* created and the table has no Admin and no Reviewer column.
C9_Amended ==
    TableReturned =>
        IF flag
        THEN /\ {"Admin", "Reviewer"} \subseteq Columns(Table)
             /\ \A s \in 1..shape0(Table) :
                   LET rls == RolesOf(Table.data["id"][s]) IN
                   /\ Table.data["Admin"][s] = FlagOf(rls, 2)
                   /\ Table.data["Reviewer"][s] = FlagOf(rls, 49)
        ELSE /\ "Admin" \notin Columns(Table)
             /\ "Reviewer" \notin Columns(Table)
             /\ admin_flag = Unset /\ reviewer_flag = Unset

C9_Witness ==
    /\ TableReturned
    /\ ~flag
    /\ \E s \in 1..shape0(Table) :
          /\ HasRoleAnywhere(RolesOf(Table.data["id"][s]), 2)
          /\ HasRoleAnywhere(RolesOf(Table.data["id"][s]), 49)

====
